---------------------------- MODULE Spec2Model ----------------------------
(*************************************************************************)
(* A model of paddlenlp/transformers/funnel/tokenizer.py:                *)
(*   - FunnelTokenizer.truncate_sequences  (specification SpecTrunc)     *)
(*   - FunnelTokenizer.rematch             (specification SpecRematch)   *)
(*   - FunnelTokenizer.batch_encode        (specification Spec)          *)
(* Python lists are sequences (1-based here, 0-based in the source);     *)
(* Python strings are sequences of one-character strings.                *)
(*************************************************************************)
EXTENDS Integers, Sequences, FiniteSets, TLC

VARIABLES
    trunc,                  \* the frame of one truncate_sequences call
    rm,                     \* the frame of one rematch call
    args,                   \* the arguments of one batch_encode call
    batch,                  \* the items of batch_text_or_text_pairs read so far
    example_id,             \* index of the batch item being processed
    first_ids,              \* ids of the item's text
    second_ids,             \* ids of the item's text_pair not yet windowed
    token_offset_mapping,   \* rematch(text)
    token_pair_offset_mapping, \* rematch(text_pair), sliced with second_ids
    max_len_for_pair,       \* room left for pair tokens in one window
    batch_encode_inputs,    \* the list batch_encode returns
    emitted,                \* history: for each record, the locals it was built from
    pc                      \* position inside batch_encode

tvars == <<trunc>>
rvars == <<rm>>
bvars == <<args, batch, example_id, first_ids, second_ids, token_offset_mapping,
           token_pair_offset_mapping, max_len_for_pair, batch_encode_inputs,
           emitted, pc>>
vars == <<trunc, rm, args, batch, example_id, first_ids, second_ids,
          token_offset_mapping, token_pair_offset_mapping, max_len_for_pair,
          batch_encode_inputs, emitted, pc>>

-----------------------------------------------------------------------------
(* Bounds of the model *)

\* longest ids / pair_ids handed to truncate_sequences
MaxIdsLen == 5
\* largest num_tokens_to_remove handed to truncate_sequences
MaxRemove == 5
\* largest stride handed to truncate_sequences
MaxTruncStride == 2

-----------------------------------------------------------------------------
(* Python list semantics *)

Min(a, b) == IF a <= b THEN a ELSE b
Max(a, b) == IF a >= b THEN a ELSE b

\* a slice index as Python clamps it: negative counts from the end
PyClamp(i, n) == IF i < 0 THEN Max(0, n + i) ELSE Min(i, n)

\* s[lo:hi]
PySlice(s, lo, hi) ==
    LET l == PyClamp(lo, Len(s))
        h == PyClamp(hi, Len(s))
    IN  IF h <= l THEN <<>> ELSE SubSeq(s, l + 1, h)

\* s[:k]
PyPrefix(s, k) == PySlice(s, 0, k)

\* s[k:]
PySuffix(s, k) == PySlice(s, k, Len(s))

\* [x] * n
Repeat(x, n) == [i \in 1..n |-> x]

\* list(range(n))
Range(n) == [i \in 1..n |-> i - 1]

-----------------------------------------------------------------------------
(* truncate_sequences *)

TruncationStrategies == {"longest_first", "only_first", "only_second",
                         "do_not_truncate", "other"}

\* the token ids of the two sequences: distinct, so that a removed token is
\* identified by its value
IdsOfLen(k) == [i \in 1..k |-> i]
PairIdsOfLen(k) == [i \in 1..k |-> 10 + i]

\* pair_ids is None when has_pair is FALSE
TruncCalls ==
    [ids : {IdsOfLen(k) : k \in 0..MaxIdsLen},
     has_pair : BOOLEAN,
     pair_ids : {PairIdsOfLen(k) : k \in 0..MaxIdsLen},
     num_tokens_to_remove : (0 - 1)..MaxRemove,
     truncation_strategy : TruncationStrategies,
     stride : 0..MaxTruncStride]

NoTrunc == [pc |-> "idle"]

\* the frame at entry: the arguments, and the locals the loop updates
TruncFrame(call) ==
    [pc |-> "call",
     call |-> call,
     ids |-> call.ids,
     has_pair |-> call.has_pair,
     pair_ids |-> call.pair_ids,
     overflowing_tokens |-> <<>>,
     todo |-> 0]

TruncInit ==
    \E call \in TruncCalls :
        /\ ~call.has_pair => call.pair_ids = <<>>
        /\ trunc = TruncFrame(call)

\* line 286: which of the two loops runs
FirstLoop(f) == ~f.has_pair \/ Len(f.ids) <= Len(f.pair_ids)

\* line 288 / line 296: whether this iteration takes its token from ids
TakeFromIdsBTiesToIds(f) == ~f.has_pair \/ Len(f.ids) >= Len(f.pair_ids)
TakeFromIdsA(f) == ~f.has_pair \/ Len(f.ids) >= Len(f.pair_ids)
TakeFromIdsB(f) == ~f.has_pair \/ Len(f.ids) > Len(f.pair_ids)

\* lines 289-290 / 297-298, or line 292 / 300; ids[-1] of an empty list raises
RemoveOne(f, from_ids) ==
    IF from_ids
    THEN IF Len(f.ids) = 0
         THEN [f EXCEPT !.pc = "error"]
         ELSE [f EXCEPT !.overflowing_tokens = <<f.ids[Len(f.ids)]>> \o @,
                        !.ids = PyPrefix(@, 0 - 1),
                        !.todo = @ - 1]
    ELSE [f EXCEPT !.pair_ids = PyPrefix(@, 0 - 1), !.todo = @ - 1]

LongestFirstReturnNoLookBack(f) == [f EXCEPT !.pc = "returned"]

\* lines 293 / 301, 302-303 and 320
LongestFirstReturn(f) ==
    LET window_len == Min(Len(f.ids), f.call.stride)
    IN  [f EXCEPT !.pc = "returned",
                  !.overflowing_tokens =
                      IF window_len > 0
                      THEN PySuffix(f.ids, 0 - window_len) \o @
                      ELSE @]

OnlyFirstOffByOne(f) ==
    LET n == f.call.num_tokens_to_remove
        window_len == Min(Len(f.ids), f.call.stride + n)
    IN  IF ~(Len(f.ids) >= n)
        THEN [f EXCEPT !.pc = "error"]
        ELSE [f EXCEPT !.pc = "returned",
                       !.overflowing_tokens = PySuffix(f.ids, 0 - window_len),
                       !.ids = PyPrefix(@, 0 - n)]

OnlyFirstNoStride(f) ==
    LET n == f.call.num_tokens_to_remove
        window_len == Min(Len(f.ids), n)
    IN  IF ~(Len(f.ids) > n)
        THEN [f EXCEPT !.pc = "error"]
        ELSE [f EXCEPT !.pc = "returned",
                       !.overflowing_tokens = PySuffix(f.ids, 0 - window_len),
                       !.ids = PyPrefix(@, 0 - n)]

\* lines 304-308
OnlyFirst(f) ==
    LET n == f.call.num_tokens_to_remove
        window_len == Min(Len(f.ids), f.call.stride + n)
    IN  IF ~(Len(f.ids) > n)
        THEN [f EXCEPT !.pc = "error"]
        ELSE [f EXCEPT !.pc = "returned",
                       !.overflowing_tokens = PySuffix(f.ids, 0 - window_len),
                       !.ids = PyPrefix(@, 0 - n)]

\* lines 309-313
OnlySecond(f) ==
    LET n == f.call.num_tokens_to_remove
        window_len == Min(Len(f.pair_ids), f.call.stride + n)
    IN  IF ~(f.has_pair /\ Len(f.pair_ids) > n)
        THEN [f EXCEPT !.pc = "error"]
        ELSE [f EXCEPT !.pc = "returned",
                       !.overflowing_tokens = PySuffix(f.pair_ids, 0 - window_len),
                       !.pair_ids = PyPrefix(@, 0 - n)]

\* line 281: nothing to remove
NothingToRemoveStrict(n) == n < 0
NothingToRemove(n) == n <= 0

\* lines 281-286, 304-320: the early return and the strategy dispatch
Dispatch(f) ==
    LET n == f.call.num_tokens_to_remove
        s == f.call.truncation_strategy
    IN  IF NothingToRemove(n) THEN [f EXCEPT !.pc = "returned"]
        ELSE IF s = "longest_first"
             THEN [f EXCEPT !.todo = n,
                            !.pc = IF FirstLoop(f) THEN "loopA" ELSE "loopB"]
        ELSE IF s = "only_first" THEN OnlyFirst(f)
        ELSE IF s = "only_second" THEN OnlySecond(f)
        ELSE [f EXCEPT !.pc = "error"]

\* lines 287-303: the loop of longest_first run to its end
RECURSIVE RunLoop(_)
RunLoop(f) ==
    IF f.pc \notin {"loopA", "loopB"} THEN f
    ELSE IF f.todo = 0 THEN LongestFirstReturn(f)
    ELSE RunLoop(RemoveOne(f, IF f.pc = "loopA" THEN TakeFromIdsA(f)
                                                ELSE TakeFromIdsB(f)))

\* lines 257-320: a whole call, as batch_encode's callee uses it
truncate_sequences(call) == RunLoop(Dispatch(TruncFrame(call)))

\* lines 281-286, 304-320: entry into the call
TruncEnter ==
    /\ trunc.pc = "call"
    /\ trunc' = Dispatch(trunc)
    /\ UNCHANGED <<rvars, bvars>>

\* lines 287-292: one iteration of the loop taken when ids is not the longer
TruncStepA ==
    /\ trunc.pc = "loopA"
    /\ trunc.todo > 0
    /\ trunc' = RemoveOne(trunc, TakeFromIdsA(trunc))
    /\ UNCHANGED <<rvars, bvars>>

\* lines 295-300: one iteration of the loop taken when ids is the longer
TruncStepB ==
    /\ trunc.pc = "loopB"
    /\ trunc.todo > 0
    /\ trunc' = RemoveOne(trunc, TakeFromIdsB(trunc))
    /\ UNCHANGED <<rvars, bvars>>

\* lines 293, 301-303, 320: the loop is over
TruncLeave ==
    /\ trunc.pc \in {"loopA", "loopB"}
    /\ trunc.todo = 0
    /\ trunc' = LongestFirstReturn(trunc)
    /\ UNCHANGED <<rvars, bvars>>

TruncNext == TruncEnter \/ TruncStepA \/ TruncStepB \/ TruncLeave

-----------------------------------------------------------------------------
(* rematch *)

\* longest text handed to rematch
MaxTextLen == 3

\* The characters of the model's texts, one for each way lines 575-580 treat
\* a character:
\*   "a"  a lowercase letter, kept as it is
\*   "A"  an uppercase letter: lower() gives "a"
\*   "E"  an accented letter: NFD gives "e" and the combining mark "~"
\*   "K"  a precomposed syllable: NFD gives the two letters "k" and "j"
\*   "S"  a capital sigma: lower() of the character alone gives "s", while
\*        lower() of a word gives the final form "z" at the end of the word
\*   "^"  a control character
\*   " "  a space
Chars == {"a", "A", "E", "K", "S", "^", " "}

\* str.lower() of one character
Lower(c) ==
    IF c = "A" THEN "a" ELSE IF c = "E" THEN "e'" ELSE IF c = "K" THEN "kj"
    ELSE IF c = "S" THEN "s" ELSE c

\* unicodedata.normalize("NFD", ch) of a lowercased character
NFD(c) == IF c = "e'" THEN <<"e", "~">> ELSE IF c = "kj" THEN <<"k", "j">> ELSE <<c>>

\* the characters with unicodedata.category(c) == "Mn"
MnChars == {"~"}

\* the characters with ord(c) == 0 or ord(c) == 0xFFFD or _is_control(c)
ControlChars == {"^"}

\* [c for c in s if c not in dropped]
RECURSIVE Filter(_, _)
Filter(s, dropped) ==
    IF s = <<>> THEN <<>>
    ELSE (IF Head(s) \in dropped THEN <<>> ELSE <<Head(s)>>) \o Filter(Tail(s), dropped)

\* lines 575-580: what one character of the text becomes
NormalizeChar(ch, do_lower_case) ==
    LET folded == IF do_lower_case THEN Filter(NFD(Lower(ch)), MnChars) ELSE <<ch>>
    IN  Filter(folded, ControlChars)

\* lines 572-583: normalized_text and char_mapping (0-based source indices)
RECURSIVE Normalize(_, _, _)
Normalize(text, do_lower_case, i) ==
    IF i > Len(text) THEN [normalized_text |-> <<>>, char_mapping |-> <<>>]
    ELSE LET ch == NormalizeChar(text[i], do_lower_case)
             rest == Normalize(text, do_lower_case, i + 1)
         IN  [normalized_text |-> ch \o rest.normalized_text,
              char_mapping |-> Repeat(i - 1, Len(ch)) \o rest.char_mapping]

\* lines 27-31
stem(token) ==
    IF PyPrefix(token, 2) = <<"#", "#">> THEN PySuffix(token, 2) ELSE token

\* s.index(t) as a search from the right
IndexLast(s, t) ==
    LET hits == {i \in 0..(Len(s) - Len(t)) : SubSeq(s, i + 1, i + Len(t)) = t}
    IN  IF hits = {} THEN 0 - 1 ELSE CHOOSE i \in hits : \A j \in hits : i >= j

\* s.index(t): the 0-based position of the first occurrence, -1 for ValueError
Index(s, t) ==
    LET hits == {i \in 0..(Len(s) - Len(t)) : SubSeq(s, i + 1, i + Len(t)) = t}
    IN  IF hits = {} THEN 0 - 1 ELSE CHOOSE i \in hits : \A j \in hits : i <= j

\* whether s[i] raises no IndexError
PyInRange(s, i) == 0 - Len(s) <= i /\ i < Len(s)

\* s[i]
PyAt(s, i) == IF i < 0 THEN s[Len(s) + i + 1] ELSE s[i + 1]

\* line 594: where the search for the next token starts
NextOffsetAtStart(start, end) == start
NextOffset(start, end) == end

\* an exception leaves the call without a result
RematchError == [ok |-> FALSE, token_mapping |-> <<>>]

\* lines 587-596: the loop over the tokens, from token k on; starts records
\* the value of start of each iteration
RECURSIVE RematchLoop(_, _, _, _, _, _, _)
RematchLoop(text, char_mapping, tokens, k, offset, token_mapping, starts) ==
    IF k > Len(tokens)
    THEN [ok |-> TRUE, token_mapping |-> token_mapping, starts |-> starts]
    ELSE LET token == stem(tokens[k])
             found == Index(PySuffix(text, offset), token)
             start == found + offset
             end == start + Len(token)
             failed == RematchError @@ [starts |-> starts]
         IN  IF found < 0 THEN failed
             ELSE IF ~PyInRange(char_mapping, start) THEN failed
             ELSE IF ~PyInRange(char_mapping, end - 1) THEN failed
             ELSE RematchLoop(text, char_mapping, tokens, k + 1, NextOffset(start, end),
                      Append(token_mapping,
                             <<PyAt(char_mapping, start),
                               PyAt(char_mapping, end - 1) + 1>>),
                      Append(starts, start))

\* lines 566-596, with tokens the result of custom_tokenize(text)
Rematch(text, tokens, do_lower_case) ==
    LET n == Normalize(text, do_lower_case, 1)
    IN  RematchLoop(n.normalized_text, n.char_mapping, tokens, 1, 0, <<>>, <<>>)

\* The tokenize pipeline (basic tokenizer, then WordPiece): the normalized
\* text split at spaces into words, each word split into pieces at the
\* places the vocabulary decides (cuts), each piece after the first of its
\* word carrying the continuation marker.
RECURSIVE Pieces(_, _, _, _, _)
Pieces(ntext, cuts, i, piece, continues) ==
    LET token == (IF continues THEN <<"#", "#">> ELSE <<>>) \o piece
        flush == IF piece = <<>> THEN <<>> ELSE <<token>>
    IN  IF i > Len(ntext) THEN flush
        ELSE IF ntext[i] = " " THEN flush \o Pieces(ntext, cuts, i + 1, <<>>, FALSE)
        ELSE IF i \in cuts /\ i < Len(ntext) /\ ntext[i + 1] # " "
             THEN <<(IF continues THEN <<"#", "#">> ELSE <<>>) \o Append(piece, ntext[i])>>
                  \o Pieces(ntext, cuts, i + 1, <<>>, TRUE)
        ELSE Pieces(ntext, cuts, i + 1, Append(piece, ntext[i]), continues)

\* the letters that have a case
CasedChars == {"a", "A", "E", "S"}

\* character i of str.lower() of a text: a capital sigma that follows a
\* cased letter and is followed by none takes the final form
LowerAt(text, i) ==
    IF /\ text[i] = "S"
       /\ i > 1 /\ text[i - 1] \in CasedChars
       /\ i < Len(text) => text[i + 1] \notin CasedChars
    THEN "z"
    ELSE Lower(text[i])

\* The text as the basic tokenizer hands it to WordPiece: control characters
\* removed, then each word lowercased as a whole and stripped of its
\* combining marks.
RECURSIVE BasicNormalize(_, _, _)
BasicNormalize(text, do_lower_case, i) ==
    IF i > Len(text) THEN <<>>
    ELSE (IF do_lower_case THEN Filter(NFD(LowerAt(text, i)), MnChars) ELSE <<text[i]>>)
             \o BasicNormalize(text, do_lower_case, i + 1)

\* lines 598-603: custom_tokenize(text) under a vocabulary that cuts at cuts
custom_tokenize(text, do_lower_case, cuts) ==
    Pieces(BasicNormalize(Filter(text, ControlChars), do_lower_case, 1), cuts, 1, <<>>, FALSE)

Texts(maxlen) == UNION {[1..n -> Chars] : n \in 0..maxlen}

NoRematch == [pc |-> "idle"]

RematchInit ==
    \E text \in Texts(MaxTextLen), do_lower_case \in BOOLEAN :
        \E cuts \in SUBSET (1..(Len(Normalize(text, do_lower_case, 1).normalized_text) - 1)) :
            rm = [pc |-> "call",
                  text |-> text,
                  do_lower_case |-> do_lower_case,
                  tokens |-> custom_tokenize(text, do_lower_case, cuts),
                  token_mapping |-> <<>>,
                  starts |-> <<>>]

\* lines 566-596: one call of rematch
RematchCall ==
    /\ rm.pc = "call"
    /\ LET r == Rematch(rm.text, rm.tokens, rm.do_lower_case)
       IN  rm' = [rm EXCEPT !.pc = IF r.ok THEN "returned" ELSE "error",
                            !.token_mapping = r.token_mapping,
                            !.starts = r.starts]
    /\ UNCHANGED <<tvars, bvars>>

RematchNext == RematchCall

-----------------------------------------------------------------------------
(* batch_encode *)

\* largest max_seq_len
MaxSeqLen == 6
\* tokens in a text
FirstLen == 1
\* most tokens in a text_pair
MaxPairLen == 4
\* largest stride
MaxStride == 3
\* most items in a batch
MaxBatch == 2
\* most records the model lets batch_encode collect
MaxRecords == 6

\* ids the vocabulary gives the special tokens
pad_token_id == 0
cls_token_id == 1
sep_token_id == 2
unk_token_id == 3
\* token type of a padding position
pad_token_type_id == 0
\* line 35
cls_token_type_id == 2

\* convert_tokens_to_ids, under a vocabulary of the pieces of the model's texts
VocabId(token) ==
    IF token = <<"a">> THEN 4
    ELSE IF token = <<"#", "#", "a">> THEN 5
    ELSE unk_token_id

\* the layout of the special tokens: [cls] A [sep], or [cls] A [sep] B [sep]
\* with one separator between the texts, <sep> A </sep> </sep> B <sep> with
\* two (the layout the comment of line 453 counts)
SpecialTokenLayout(token_ids_0, has_1, token_ids_1, separators) ==
    IF ~has_1 THEN <<cls_token_id>> \o token_ids_0 \o <<sep_token_id>>
    ELSE <<cls_token_id>> \o token_ids_0 \o Repeat(sep_token_id, separators)
             \o token_ids_1 \o <<sep_token_id>>

\* build_inputs_with_special_tokens of the tokenizer the call runs on
build_inputs_with_special_tokens(token_ids_0, has_1, token_ids_1) ==
    SpecialTokenLayout(token_ids_0, has_1, token_ids_1, args.pair_separators)

\* lines 181-198
num_special_tokens_to_add(pair) ==
    Len(build_inputs_with_special_tokens(<<>>, pair, <<>>))

BuildOffsetMappingNoLastSpecial(offset_mapping_0, has_1, offset_mapping_1) ==
    IF ~has_1 THEN <<<<0, 0>>>> \o offset_mapping_0 \o <<<<0, 0>>>>
    ELSE <<<<0, 0>>>> \o offset_mapping_0 \o <<<<0, 0>>>> \o offset_mapping_1

\* lines 200-221
build_offset_mapping_with_special_tokens(offset_mapping_0, has_1, offset_mapping_1) ==
    IF ~has_1 THEN <<<<0, 0>>>> \o offset_mapping_0 \o <<<<0, 0>>>>
    ELSE <<<<0, 0>>>> \o offset_mapping_0 \o <<<<0, 0>>>>
             \o offset_mapping_1 \o <<<<0, 0>>>>

\* lines 223-228
create_token_type_ids_from_sequences(token_ids_0, has_1, token_ids_1) ==
    LET _sep == <<sep_token_id>>
        _cls == <<cls_token_id>>
    IN  IF ~has_1
        THEN Repeat(cls_token_type_id, Len(_cls)) \o Repeat(0, Len(token_ids_0 \o _sep))
        ELSE Repeat(cls_token_type_id, Len(_cls)) \o Repeat(0, Len(token_ids_0 \o _sep))
                 \o Repeat(1, Len(token_ids_1 \o _sep))

\* lines 253-255 (already_has_special_tokens is False)
get_special_tokens_mask(token_ids_0, has_1, token_ids_1) ==
    IF has_1
    THEN <<1>> \o Repeat(0, Len(token_ids_0)) \o <<1>> \o Repeat(0, Len(token_ids_1)) \o <<1>>
    ELSE <<1>> \o Repeat(0, Len(token_ids_0)) \o <<1>>

\* a text of the batch: one word of k letters, which the vocabulary cuts
\* into one piece per letter
Word(k) == [i \in 1..k |-> "a"]
LetterCuts(text) == 1..Len(text)

\* lines 129-142: _tokenize(text)
tokenize(text) == custom_tokenize(text, TRUE, LetterCuts(text))

\* lines 424-427: get_input_ids of a string
get_input_ids(text) ==
    LET tokens == tokenize(text)
    IN  [i \in 1..Len(tokens) |-> VocabId(tokens[i])]

\* text_pair is None when has_pair is FALSE
Items ==
    {[text |-> Word(FirstLen), has_pair |-> FALSE, text_pair |-> <<>>]}
    \cup {[text |-> Word(FirstLen), has_pair |-> TRUE, text_pair |-> Word(m)] :
              m \in 0..MaxPairLen}

\* the optional list-valued entries of a record, by the flag that asks for each
ReturnFlags == {"return_position_ids", "return_token_type_ids", "return_attention_mask",
                "return_length", "return_special_tokens_mask"}

\* which optional entries the caller asks for (lines 330-335): none, one
\* (return_token_type_ids alone is the default), or all
ReturnChoices ==
    {[f \in ReturnFlags |-> f \in asked] :
         asked \in {{}, ReturnFlags} \cup {{f} : f \in ReturnFlags}}

\* the arguments of batch_encode (lines 322-336), the tokenizer's
\* padding_side, which is read only when pad_to_max_seq_len is set, and the
\* number of separators its layout puts between the two texts
BatchArgs ==
    {[max_seq_len |-> m, stride |-> s, pad_to_max_seq_len |-> p, padding_side |-> side,
      truncation_strategy |-> "longest_first", pair_separators |-> 1] @@ r :
         m \in Len(SpecialTokenLayout(<<>>, TRUE, <<>>, 1))..MaxSeqLen,
         s \in 0..MaxStride,
         p \in BOOLEAN,
         side \in {"left", "right"},
         r \in ReturnChoices}

\* line 437: the state at the start of a call with arguments from calls
BatchInitIn(calls) ==
    /\ args \in calls
    /\ batch = <<>>
    /\ example_id = 0
    /\ first_ids = <<>>
    /\ second_ids = <<>>
    /\ token_offset_mapping = <<>>
    /\ token_pair_offset_mapping = <<>>
    /\ max_len_for_pair = 0
    /\ batch_encode_inputs = <<>>
    /\ emitted = <<>>
    /\ pc = "item"

BatchInit ==
    BatchInitIn({a \in BatchArgs : ~a.pad_to_max_seq_len => a.padding_side = "right"})

\* a dict entry that is present only when asked for
Field(wanted, name, value) == IF wanted THEN name :> value ELSE <<>>

LengthUnchecked(sequence, max_seq_len) == TRUE

\* line 484
WithinMaxSeqLen(sequence, max_seq_len) == Len(sequence) <= max_seq_len

\* lines 470-538: the record of one window; the padding of lines 493-530
\* puts the filler at the padding side of every list
EncodedInputs(ids, mapping, has_pair, pair_ids, pair_mapping, windowed, id) ==
    LET offset_mapping == build_offset_mapping_with_special_tokens(mapping, has_pair, pair_mapping)
        sequence == build_inputs_with_special_tokens(ids, has_pair, pair_ids)
        token_type_ids == create_token_type_ids_from_sequences(ids, has_pair, pair_ids)
        special_tokens_mask == get_special_tokens_mask(ids, has_pair, pair_ids)
        needs_to_be_padded ==
            /\ args.pad_to_max_seq_len
            /\ args.max_seq_len # 0
            /\ Len(sequence) < args.max_seq_len
        difference == args.max_seq_len - Len(sequence)
        Pad(list, filler) ==
            IF needs_to_be_padded /\ args.padding_side = "right"
            THEN list \o Repeat(filler, difference)
            ELSE IF needs_to_be_padded /\ args.padding_side = "left"
            THEN Repeat(filler, difference) \o list
            ELSE list
        input_ids == Pad(sequence, pad_token_id)
    IN  ("input_ids" :> input_ids)
        @@ Field(args.return_token_type_ids, "token_type_ids",
                 Pad(token_type_ids, pad_token_type_id))
        @@ Field(args.return_special_tokens_mask, "special_tokens_mask",
                 Pad(special_tokens_mask, 1))
        @@ Field(args.return_length, "seq_len", Len(sequence))
        @@ Field(windowed, "offset_mapping", Pad(offset_mapping, <<0, 0>>))
        @@ Field(args.return_attention_mask
                     /\ (needs_to_be_padded => args.padding_side \in {"left", "right"}),
                 "attention_mask", Pad(Repeat(1, Len(sequence)), 0))
        @@ Field(args.return_position_ids, "position_ids", Range(Len(input_ids)))
        @@ Field(windowed, "overflow_to_sample", id)

PrependRecord(list, record) == <<record>> \o list

\* line 539 / line 548
AppendRecord(list, record) == Append(list, record)

\* line 449
SlidingWindow(item) == args.stride > 0 /\ item.has_pair

\* lines 544-545: what is left of a list after a window that is not the last
AdvanceNoStride(list, window, stride) == PySuffix(list, window)
Advance(list, window, stride) == PySuffix(list, window - stride)

\* lines 438-457: the loop reads the next item of the batch, one of items in
\* a batch of at most max_batch, and the item goes the sliding-window way
StartWindowsOf(items, max_batch) ==
    /\ pc = "item"
    /\ Len(batch) < max_batch
    /\ \E item \in items :
        /\ SlidingWindow(item)
        /\ batch' = Append(batch, item)
        /\ LET ids == get_input_ids(item.text)
               m == Rematch(item.text,
                            custom_tokenize(item.text, TRUE, LetterCuts(item.text)), TRUE)
               pm == Rematch(item.text_pair,
                             custom_tokenize(item.text_pair, TRUE,
                                             LetterCuts(item.text_pair)), TRUE)
           IN  /\ first_ids' = ids
               /\ second_ids' = get_input_ids(item.text_pair)
               /\ max_len_for_pair' = args.max_seq_len - Len(ids)
                                          - num_special_tokens_to_add(TRUE)
               /\ IF m.ok /\ pm.ok
                  THEN /\ token_offset_mapping' = m.token_mapping
                       /\ token_pair_offset_mapping' = pm.token_mapping
                       /\ pc' = "window"
                  ELSE /\ pc' = "error"
                       /\ UNCHANGED <<token_offset_mapping, token_pair_offset_mapping>>
    /\ UNCHANGED <<args, example_id, batch_encode_inputs, emitted, tvars, rvars>>

StartWindows == StartWindowsOf(Items, MaxBatch)

\* lines 458-545: one pass of the while loop, while the model lets
\* batch_encode collect records
EmitWindowUpTo(max_records) ==
    /\ pc = "window"
    /\ Len(batch_encode_inputs) < max_records
    /\ LET last == Len(second_ids) <= max_len_for_pair
           pair_ids == IF last THEN second_ids
                       ELSE PyPrefix(second_ids, max_len_for_pair)
           pair_mapping == IF last THEN token_pair_offset_mapping
                           ELSE PyPrefix(token_pair_offset_mapping, max_len_for_pair)
           sequence == build_inputs_with_special_tokens(first_ids, TRUE, pair_ids)
           encoded_inputs == EncodedInputs(first_ids, token_offset_mapping, TRUE,
                                           pair_ids, pair_mapping, TRUE, example_id)
       IN  IF ~WithinMaxSeqLen(sequence, args.max_seq_len)
           THEN /\ pc' = "error"
                /\ UNCHANGED <<example_id, second_ids, token_pair_offset_mapping,
                               batch_encode_inputs, emitted>>
           ELSE /\ batch_encode_inputs' = AppendRecord(batch_encode_inputs, encoded_inputs)
                /\ emitted' = AppendRecord(emitted,
                                  [example_id |-> example_id, windowed |-> TRUE,
                                   pair_mapping |-> pair_mapping, last |-> last])
                /\ IF last
                   THEN /\ pc' = "item"
                        /\ example_id' = example_id + 1
                        /\ UNCHANGED <<second_ids, token_pair_offset_mapping>>
                   ELSE /\ second_ids' = Advance(second_ids, max_len_for_pair, args.stride)
                        /\ token_pair_offset_mapping' =
                               Advance(token_pair_offset_mapping, max_len_for_pair,
                                       args.stride)
                        /\ UNCHANGED <<pc, example_id>>
    /\ UNCHANGED <<args, batch, first_ids, token_offset_mapping, max_len_for_pair,
                   tvars, rvars>>

EmitWindow == EmitWindowUpTo(MaxRecords)

\* encode of the base tokenizer: truncate once to max_seq_len, add the
\* special tokens, pad once
Encode(ids, has_pair, pair_ids) ==
    LET total_len == Len(ids) + Len(pair_ids) + num_special_tokens_to_add(has_pair)
        t == truncate_sequences(
                 [ids |-> ids, has_pair |-> has_pair, pair_ids |-> pair_ids,
                  num_tokens_to_remove |-> total_len - args.max_seq_len,
                  truncation_strategy |-> args.truncation_strategy,
                  stride |-> args.stride])
        sequence == build_inputs_with_special_tokens(t.ids, has_pair, t.pair_ids)
    IN  IF t.pc = "error" \/ Len(sequence) > args.max_seq_len
        THEN [ok |-> FALSE, encoded_inputs |-> <<>>]
        ELSE [ok |-> TRUE,
              encoded_inputs |-> EncodedInputs(t.ids, <<>>, has_pair, t.pair_ids, <<>>,
                                               FALSE, example_id)]

\* lines 438-447, 547-562: the loop reads the next item of the batch, and the
\* item goes to encode
EncodeItemOf(items, max_batch, max_records) ==
    /\ pc = "item"
    /\ Len(batch) < max_batch
    /\ Len(batch_encode_inputs) < max_records
    /\ \E item \in items :
        /\ ~SlidingWindow(item)
        /\ batch' = Append(batch, item)
        /\ LET ids == get_input_ids(item.text)
               pair_ids == get_input_ids(item.text_pair)
               e == Encode(ids, item.has_pair, pair_ids)
           IN  /\ first_ids' = ids
               /\ second_ids' = pair_ids
               /\ IF e.ok
                  THEN /\ batch_encode_inputs' =
                              AppendRecord(batch_encode_inputs, e.encoded_inputs)
                       /\ emitted' = AppendRecord(emitted,
                                         [example_id |-> example_id, windowed |-> FALSE,
                                          pair_mapping |-> <<>>, last |-> TRUE])
                       /\ example_id' = example_id + 1
                       /\ pc' = "item"
                  ELSE /\ pc' = "error"
                       /\ UNCHANGED <<batch_encode_inputs, emitted, example_id>>
    /\ UNCHANGED <<args, token_offset_mapping, token_pair_offset_mapping,
                   max_len_for_pair, tvars, rvars>>

EncodeItem == EncodeItemOf(Items, MaxBatch, MaxRecords)

\* line 564: the batch has no more items
Return ==
    /\ pc = "item"
    /\ pc' = "done"
    /\ UNCHANGED <<args, batch, example_id, first_ids, second_ids, token_offset_mapping,
                   token_pair_offset_mapping, max_len_for_pair, batch_encode_inputs,
                   emitted, tvars, rvars>>

Next == StartWindows \/ EmitWindow \/ EncodeItem \/ Return

\* The worked example of the sliding window: texts of 5 tokens, text_pairs
\* of up to 20, max_seq_len 12, stride up to 2, on a tokenizer with either
\* layout of the special tokens.
ExampleItem == [text |-> Word(5), has_pair |-> TRUE, text_pair |-> Word(20)]

ExampleItems ==
    {[text |-> Word(5), has_pair |-> FALSE, text_pair |-> <<>>]}
    \cup {[text |-> Word(5), has_pair |-> TRUE, text_pair |-> Word(m)] : m \in 17..20}

ExampleArgs ==
    {[max_seq_len |-> 12, stride |-> s, pad_to_max_seq_len |-> FALSE,
      padding_side |-> "right", truncation_strategy |-> "longest_first",
      pair_separators |-> n] @@ [f \in ReturnFlags |-> f = "return_token_type_ids"] :
         s \in 0..2, n \in 1..2}

ExampleInit == BatchInitIn(ExampleArgs)

StartExample == StartWindowsOf(ExampleItems, 2)
EmitExample == EmitWindowUpTo(40)
EncodeExample == EncodeItemOf(ExampleItems, 2, 40)

NextExample == StartExample \/ EmitExample \/ EncodeExample \/ Return

-----------------------------------------------------------------------------
(* Specifications *)

BatchIdle ==
    /\ args = [pc |-> "idle"]
    /\ batch = <<>>
    /\ example_id = 0
    /\ first_ids = <<>>
    /\ second_ids = <<>>
    /\ token_offset_mapping = <<>>
    /\ token_pair_offset_mapping = <<>>
    /\ max_len_for_pair = 0
    /\ batch_encode_inputs = <<>>
    /\ emitted = <<>>
    /\ pc = "idle"

\* one call of batch_encode
Init == BatchInit /\ trunc = NoTrunc /\ rm = NoRematch
Spec == Init /\ [][Next]_vars

\* one call of batch_encode on the worked example
InitExample == ExampleInit /\ trunc = NoTrunc /\ rm = NoRematch
SpecExample == InitExample /\ [][NextExample]_vars

\* one call of truncate_sequences
InitTrunc == TruncInit /\ rm = NoRematch /\ BatchIdle
SpecTrunc == InitTrunc /\ [][TruncNext]_vars

\* one call of rematch
InitRematch == RematchInit /\ trunc = NoTrunc /\ BatchIdle
SpecRematch == InitRematch /\ [][RematchNext]_vars

-----------------------------------------------------------------------------
(* Properties of truncate_sequences *)

TruncReturned == trunc.pc = "returned"
TruncN == trunc.call.num_tokens_to_remove
TruncStrategy == trunc.call.truncation_strategy

\* C7: a longest_first call with n > 0 tokens to remove that returns has
\* removed exactly n tokens: the lengths returned plus n are the lengths given.
LongestFirstConserves ==
    (TruncReturned /\ TruncStrategy = "longest_first" /\ TruncN > 0)
        => Len(trunc.ids) + Len(trunc.pair_ids) + TruncN
               = Len(trunc.call.ids) + Len(trunc.call.pair_ids)

\* the cases C9 lists
MustFail(call) ==
    /\ call.num_tokens_to_remove > 0
    /\ \/ call.truncation_strategy = "only_first"
          /\ Len(call.ids) <= call.num_tokens_to_remove
       \/ call.truncation_strategy = "only_second"
          /\ (~call.has_pair \/ Len(call.pair_ids) <= call.num_tokens_to_remove)
       \/ call.truncation_strategy = "do_not_truncate"
       \/ call.truncation_strategy
              \notin {"longest_first", "only_first", "only_second", "do_not_truncate"}

\* C9: with n > 0, a call that asks only_first of ids no longer than n,
\* only_second of an absent pair or of a pair no longer than n,
\* do_not_truncate, or an unknown strategy, ends in an error and never returns.
TruncationFailsWhenImpossible ==
    (MustFail(trunc.call) /\ trunc.pc # "call") => trunc.pc = "error"

TruncationFailsWitness ==
    /\ trunc.pc = "error"
    /\ TruncStrategy = "only_first"
    /\ TruncN > 0
    /\ Len(trunc.call.ids) = TruncN

\* C10: with n <= 0 the call returns whatever the strategy, with ids and
\* pair_ids as given and an empty overflow.
NoRemovalIsNoOp ==
    (TruncN <= 0 /\ trunc.pc # "call")
        => /\ trunc.pc = "returned"
           /\ trunc.ids = trunc.call.ids
           /\ trunc.has_pair = trunc.call.has_pair
           /\ trunc.pair_ids = trunc.call.pair_ids
           /\ trunc.overflowing_tokens = <<>>

NoRemovalWitness ==
    /\ trunc.pc = "returned"
    /\ TruncN = 0
    /\ TruncStrategy = "do_not_truncate"
    /\ trunc.call.stride > 0
    /\ Len(trunc.call.ids) > 0

-----------------------------------------------------------------------------
(* Properties of rematch *)

Spans == rm.token_mapping

\* whether the character at 0-based index i of the text normalizes to
\* several characters
Expands(i) == Len(NormalizeChar(rm.text[i + 1], rm.do_lower_case)) > 1

\* C8 as claimed: the spans rematch returns are in order and never overlap:
\* each has start <= end and starts at or after the end of the one before.
SpansNeverOverlap ==
    rm.pc = "returned"
        => \A k \in 1..Len(Spans) :
              /\ Spans[k][1] <= Spans[k][2]
              /\ k > 1 => Spans[k][1] >= Spans[k - 1][2]

\* C8 as amended: each span has start <= end, and starts at or after the end
\* of the one before, except that a span may start on the last character of
\* the one before when that character normalizes to several characters (the
\* two tokens were both cut from it).
SpansOverlapOnlyOnExpansion ==
    rm.pc = "returned"
        => \A k \in 1..Len(Spans) :
              /\ Spans[k][1] <= Spans[k][2]
              /\ k > 1 => \/ Spans[k][1] >= Spans[k - 1][2]
                          \/ /\ Spans[k][1] = Spans[k - 1][2] - 1
                             /\ Expands(Spans[k][1])

\* two spans share an expanding character, and a deleted character lies in a gap
SpansWitness ==
    /\ rm.pc = "returned"
    /\ \E k \in 2..Len(Spans) : Spans[k][1] = Spans[k - 1][2] - 1
    /\ \E k \in 2..Len(Spans) : Spans[k][1] > Spans[k - 1][2]

\* the normalized text and the char_mapping of the call
RematchText == Normalize(rm.text, rm.do_lower_case, 1).normalized_text
RematchCharMapping == Normalize(rm.text, rm.do_lower_case, 1).char_mapping

\* token k of the call as rematch looks for it
Sought(k) == stem(rm.tokens[k])

\* whether token k occurs in the normalized text at 0-based position j
OccursAt(k, j) ==
    /\ j + Len(Sought(k)) <= Len(RematchText)
    /\ SubSeq(RematchText, j + 1, j + Len(Sought(k))) = Sought(k)

\* where the match of token k ended; 0 before the first token
MatchEnd(k) == IF k = 0 THEN 0 ELSE rm.starts[k] + Len(Sought(k))

\* token k was matched at its first occurrence at or after the end of the
\* match before it
MatchedFirst(k) ==
    /\ rm.starts[k] >= MatchEnd(k - 1)
    /\ OccursAt(k, rm.starts[k])
    /\ \A j \in MatchEnd(k - 1)..(rm.starts[k] - 1) : ~OccursAt(k, j)

\* C16: rematch returns one span per token of custom_tokenize, each token
\* (continuation marker stripped) matched at its first occurrence at or
\* after the end of the match before it and its span read off char_mapping
\* there; and it fails, without spans, exactly when some token has no
\* occurrence from the end of the match before it on.
RematchMatchesOrFails ==
    /\ rm.pc = "returned" =>
           /\ Len(Spans) = Len(rm.tokens)
           /\ Len(rm.starts) = Len(rm.tokens)
           /\ \A k \in 1..Len(rm.tokens) :
                  /\ MatchedFirst(k)
                  /\ Spans[k] = <<RematchCharMapping[rm.starts[k] + 1],
                                  RematchCharMapping[MatchEnd(k)] + 1>>
    /\ rm.pc = "error" =>
           /\ Spans = <<>>
           /\ Len(rm.starts) < Len(rm.tokens)
           /\ \A k \in 1..Len(rm.starts) : MatchedFirst(k)
           /\ \A j \in MatchEnd(Len(rm.starts))..Len(RematchText) :
                  ~OccursAt(Len(rm.starts) + 1, j)

\* a call that matched its first token and failed on a later one, whose
\* final sigma the normalized text does not have
RematchFailsWitness ==
    /\ rm.pc = "error"
    /\ Len(rm.starts) >= 1
    /\ Spans = <<>>
    /\ \E i \in 1..Len(Sought(Len(rm.starts) + 1)) :
           Sought(Len(rm.starts) + 1)[i] = "z"

-----------------------------------------------------------------------------
(* Properties of batch_encode *)

\* the records of the sliding-window path
IsWindow(p) == emitted[p].windowed

\* the first and one past the last pair token of a window, read off the
\* character spans of its pair slice (token t of a text_pair spans <<t, t + 1>>)
Lo(e) == IF e.pair_mapping = <<>> THEN 0 ELSE e.pair_mapping[1][1]
Hi(e) == IF e.pair_mapping = <<>> THEN 0 ELSE e.pair_mapping[Len(e.pair_mapping)][2]

\* window p is the first window of its item
FirstOfItem(p) == p = 1 \/ emitted[p - 1].example_id # emitted[p].example_id

\* the number of tokens of the text_pair of item i
PairLen(i) == Len(batch[i + 1].text_pair)

\* C1: the pair slices of the windows of one item cover its pair_ids without
\* a gap: the first starts at token 0, each later one starts no later than
\* where the one before ended, the last ends at the last token, and so every
\* token is in some window.
WindowsCoverPair ==
    \A p \in 1..Len(emitted) :
        IsWindow(p) =>
            LET e == emitted[p]
            IN  /\ FirstOfItem(p) => Lo(e) = 0
                /\ ~FirstOfItem(p) => Lo(e) <= Hi(emitted[p - 1])
                /\ e.last => Hi(e) = PairLen(e.example_id)
                /\ e.last =>
                       \A t \in 0..(PairLen(e.example_id) - 1) :
                           \E q \in 1..p :
                               /\ emitted[q].example_id = e.example_id
                               /\ Lo(emitted[q]) <= t
                               /\ t < Hi(emitted[q])

\* C2: of two consecutive windows of one item, the later not being the final
\* one, the last stride pair tokens of the earlier are the first stride pair
\* tokens of the later.
WindowsOverlapByStride ==
    \A p \in 2..Len(emitted) :
        (IsWindow(p) /\ ~FirstOfItem(p) /\ ~emitted[p].last) =>
            LET earlier == emitted[p - 1].pair_mapping
                later == emitted[p].pair_mapping
            IN  /\ Len(earlier) >= args.stride
                /\ Len(later) >= args.stride
                /\ SubSeq(earlier, Len(earlier) - args.stride + 1, Len(earlier))
                       = SubSeq(later, 1, args.stride)

\* C3: the sliding-window loop comes to an end: a pass that does not leave
\* the loop leaves strictly fewer pair tokens for the passes after it, so the
\* loop cannot go on emitting windows forever.
WindowLoopEnds ==
    [][(pc = "window" /\ pc' = "window") => Len(second_ids') < Len(second_ids)]_vars

\* the list-valued entries of a record
ListFields == {"input_ids", "token_type_ids", "attention_mask", "special_tokens_mask",
               "position_ids", "offset_mapping"}

\* C4: in every record of the sliding-window path, every list-valued entry
\* that is present is as long as input_ids, padded or not.
WindowFieldsSameLength ==
    \A p \in 1..Len(batch_encode_inputs) :
        IsWindow(p) =>
            LET r == batch_encode_inputs[p]
            IN  /\ "offset_mapping" \in DOMAIN r
                /\ \A f \in ListFields \cap DOMAIN r : Len(r[f]) = Len(r.input_ids)

\* a left-padded window with every entry present
WindowFieldsWitness ==
    \E p \in 1..Len(batch_encode_inputs) :
        /\ IsWindow(p)
        /\ ListFields \subseteq DOMAIN batch_encode_inputs[p]
        /\ args.padding_side = "left"
        /\ batch_encode_inputs[p].input_ids[1] = pad_token_id
        /\ batch_encode_inputs[p].offset_mapping[1] = <<0, 0>>
        /\ Len(emitted[p].pair_mapping) > 0

\* C5: every record of the sliding-window path has at most max_seq_len
\* input_ids, and exactly max_seq_len when pad_to_max_seq_len is set.
WindowWithinMaxSeqLen ==
    \A p \in 1..Len(batch_encode_inputs) :
        IsWindow(p) =>
            /\ Len(batch_encode_inputs[p].input_ids) <= args.max_seq_len
            /\ args.pad_to_max_seq_len
                   => Len(batch_encode_inputs[p].input_ids) = args.max_seq_len

\* a window that padding brought to max_seq_len, after a window that filled it
WindowWithinWitness ==
    /\ args.pad_to_max_seq_len
    /\ \E p \in 2..Len(batch_encode_inputs) :
           /\ IsWindow(p) /\ IsWindow(p - 1)
           /\ emitted[p].example_id = emitted[p - 1].example_id
           /\ pad_token_id \notin {batch_encode_inputs[p - 1].input_ids[i] :
                                       i \in 1..Len(batch_encode_inputs[p - 1].input_ids)}
           /\ batch_encode_inputs[p].input_ids[Len(batch_encode_inputs[p].input_ids)]
                  = pad_token_id

\* C6: the records are in the order of the items they were produced from,
\* and a record of the sliding-window path carries the index of its item as
\* overflow_to_sample.
RecordsInItemOrder ==
    /\ Len(batch_encode_inputs) = Len(emitted)
    /\ \A p, q \in 1..Len(emitted) :
           p < q => emitted[p].example_id <= emitted[q].example_id
    /\ \A p \in 1..Len(emitted) :
           IsWindow(p) => batch_encode_inputs[p].overflow_to_sample = emitted[p].example_id

\* a returned batch of two items with several windows each
RecordsInItemOrderWitness ==
    /\ pc = "done"
    /\ Len(emitted) >= 4
    /\ IsWindow(1) /\ IsWindow(2)
    /\ emitted[2].example_id = 0
    /\ emitted[Len(emitted) - 1].example_id = 1
    /\ IsWindow(Len(emitted))
    /\ batch_encode_inputs[Len(emitted)].overflow_to_sample = 1

\* C11: with return_length, the seq_len of every record of the
\* sliding-window path is the length of the input_ids of that record, padded
\* or not.
SeqLenIsInputIdsLength ==
    \A p \in 1..Len(batch_encode_inputs) :
        (IsWindow(p) /\ args.return_length) =>
            /\ "seq_len" \in DOMAIN batch_encode_inputs[p]
            /\ batch_encode_inputs[p].seq_len = Len(batch_encode_inputs[p].input_ids)

\* the windows of item i (counted from 0) among the records
WindowsOf(i) == {p \in 1..Len(emitted) : IsWindow(p) /\ emitted[p].example_id = i}

\* the call of the worked example: 12 ids at most, stride 2, 4 special tokens
ExampleCall ==
    /\ args.max_seq_len = 12
    /\ args.stride = 2
    /\ num_special_tokens_to_add(TRUE) = 4

\* item i of the batch is the item of the worked example, and its windows
\* are complete
ExampleDone(i) == i < example_id /\ batch[i + 1] = ExampleItem

-----------------------------------------------------------------------------
(* Properties of the steps of longest_first *)

\* the step is an iteration of the loop of longest_first
RemovalStep == trunc.pc \in {"loopA", "loopB"} /\ trunc.todo > 0

\* the step takes the last token of ids and puts it in front of the overflow
TakesLastOfIds ==
    /\ Len(trunc.ids) > 0
    /\ trunc'.pc = trunc.pc
    /\ trunc'.ids = SubSeq(trunc.ids, 1, Len(trunc.ids) - 1)
    /\ trunc'.pair_ids = trunc.pair_ids
    /\ trunc'.overflowing_tokens = <<trunc.ids[Len(trunc.ids)]>> \o trunc.overflowing_tokens

\* the step takes the last token of pair_ids and drops it
TakesLastOfPairIds ==
    /\ Len(trunc.pair_ids) > 0
    /\ trunc'.pc = trunc.pc
    /\ trunc'.pair_ids = SubSeq(trunc.pair_ids, 1, Len(trunc.pair_ids) - 1)
    /\ trunc'.ids = trunc.ids
    /\ trunc'.overflowing_tokens = trunc.overflowing_tokens

\* the step finds ids empty and fails
FailsOnEmptyIds == Len(trunc.ids) = 0 /\ trunc'.pc = "error"

\* the step finds pair_ids empty and takes nothing
TakesNothing ==
    /\ Len(trunc.pair_ids) = 0
    /\ trunc'.pc = trunc.pc
    /\ trunc'.ids = trunc.ids
    /\ trunc'.pair_ids = trunc.pair_ids
    /\ trunc'.overflowing_tokens = trunc.overflowing_tokens

\* ids was the longer of the two at the call
IdsStartedLonger ==
    trunc.call.has_pair /\ Len(trunc.call.ids) > Len(trunc.call.pair_ids)

\* C13 as stated: every step of longest_first takes the last token of the
\* longer of ids and pair_ids, and of ids when the two are equally long or
\* pair_ids is absent, whatever the lengths at the call.
StepTakesFromLongerTiesToIds ==
    [][RemovalStep =>
           IF ~trunc.has_pair \/ Len(trunc.ids) >= Len(trunc.pair_ids)
           THEN TakesLastOfIds
           ELSE TakesLastOfPairIds]_vars

\* C13, amended: every step of longest_first goes to the strictly longer of
\* ids and pair_ids, to ids when pair_ids is absent, and on a tie to ids
\* unless ids was the longer at the call, when it goes to pair_ids; a step
\* that goes to ids takes its last token or fails on an empty ids, a step
\* that goes to pair_ids takes its last token or nothing from an empty
\* pair_ids.
StepTakesFromLongerTiesByStart ==
    [][RemovalStep =>
           IF \/ ~trunc.has_pair
              \/ Len(trunc.ids) > Len(trunc.pair_ids)
              \/ Len(trunc.ids) = Len(trunc.pair_ids) /\ ~IdsStartedLonger
           THEN TakesLastOfIds \/ FailsOnEmptyIds
           ELSE TakesLastOfPairIds \/ TakesNothing]_vars

\* a call where ids was the longer, and a tie has cost pair_ids a token
StepTieWitness ==
    /\ TruncReturned
    /\ TruncStrategy = "longest_first"
    /\ trunc.call.has_pair
    /\ Len(trunc.call.ids) > Len(trunc.call.pair_ids)
    /\ Len(trunc.pair_ids) < Len(trunc.call.pair_ids)
    /\ Len(trunc.ids) = Len(trunc.pair_ids) + 1

-----------------------------------------------------------------------------
(* Properties of the overflow of truncate_sequences *)

\* the last k tokens of s
LastTokens(s, k) == SubSeq(s, Len(s) - k + 1, Len(s))

\* the tokens of the ids of the call that the returned ids no longer has
RemovedFromIds == SubSeq(trunc.call.ids, Len(trunc.ids) + 1, Len(trunc.call.ids))

\* the returned ids is what is left of the ids of the call, and the overflow
\* is the look-back of at most stride tokens, then the removed tokens in
\* their original order
OverflowIsLookBackThenRemoved ==
    /\ trunc.ids = SubSeq(trunc.call.ids, 1, Len(trunc.ids))
    /\ trunc.overflowing_tokens =
           LastTokens(trunc.ids, Min(trunc.call.stride, Len(trunc.ids))) \o RemovedFromIds
    /\ \A i \in 1..Len(trunc.overflowing_tokens), j \in 1..Len(trunc.call.pair_ids) :
           trunc.overflowing_tokens[i] # trunc.call.pair_ids[j]

\* C14 as stated: the overflow that longest_first returns is the last
\* min(stride, len(ids)) tokens of the shortened ids, then the tokens removed
\* from ids in their original order, and no token of pair_ids is in it.
LongestFirstOverflow ==
    (TruncReturned /\ TruncStrategy = "longest_first") => OverflowIsLookBackThenRemoved

\* C14, amended: so it is when num_tokens_to_remove > 0; with nothing to
\* remove the overflow is empty, whatever the stride.
LongestFirstOverflowWhenRemoving ==
    (TruncReturned /\ TruncStrategy = "longest_first") =>
        IF TruncN > 0 THEN OverflowIsLookBackThenRemoved
        ELSE trunc.overflowing_tokens = <<>> /\ trunc.ids = trunc.call.ids

\* [1, 2, 3, 4, 5] without a pair, 2 to remove, stride 0, has returned
\* [1, 2, 3] and the overflow [4, 5]
LongestFirstOverflowWitness ==
    /\ TruncReturned
    /\ TruncStrategy = "longest_first"
    /\ trunc.call.ids = <<1, 2, 3, 4, 5>>
    /\ ~trunc.call.has_pair
    /\ TruncN = 2
    /\ trunc.call.stride = 0
    /\ trunc.ids = <<1, 2, 3>>
    /\ trunc.overflowing_tokens = <<4, 5>>

\* a call of only_first that meets the precondition of lines 305
OnlyFirstCall ==
    /\ trunc.pc # "call"
    /\ TruncStrategy = "only_first"
    /\ TruncN > 0
    /\ Len(trunc.call.ids) > TruncN

\* the call has returned ids without its last n tokens, and pair_ids as it was
OnlyFirstRemovesLastN ==
    /\ TruncReturned
    /\ trunc.ids = SubSeq(trunc.call.ids, 1, Len(trunc.call.ids) - TruncN)
    /\ trunc.has_pair = trunc.call.has_pair
    /\ trunc.pair_ids = trunc.call.pair_ids

\* C15 as stated: only_first with len(ids) > n > 0 removes the last n tokens
\* of ids, leaves pair_ids as it was, and returns as overflow the last
\* stride + n tokens of the ids of the call, for every stride.
OnlyFirstOverflow ==
    OnlyFirstCall =>
        /\ OnlyFirstRemovesLastN
        /\ Len(trunc.overflowing_tokens) = trunc.call.stride + TruncN
        /\ trunc.overflowing_tokens =
               LastTokens(trunc.call.ids, trunc.call.stride + TruncN)

\* C15, amended: the overflow is the last min(len(ids), stride + n) tokens
\* of the ids of the call: all of ids when stride + n exceeds its length.
OnlyFirstOverflowWithinIds ==
    OnlyFirstCall =>
        /\ OnlyFirstRemovesLastN
        /\ trunc.overflowing_tokens =
               LastTokens(trunc.call.ids,
                          Min(Len(trunc.call.ids), trunc.call.stride + TruncN))

\* a call whose stride + n exceeds len(ids), returned with all of ids as the
\* overflow, beside a pair_ids
OnlyFirstOverflowWitness ==
    /\ OnlyFirstCall
    /\ TruncReturned
    /\ trunc.call.has_pair
    /\ Len(trunc.call.pair_ids) > 0
    /\ trunc.call.stride > 0
    /\ trunc.call.stride + TruncN > Len(trunc.call.ids)
    /\ trunc.overflowing_tokens = trunc.call.ids

=============================================================================
